---- MODULE Spec2Model ----
(***************************************************************************)
(* KPI query compiler and asynchronous statement execution client of       *)
(* ci_capabilities_api.  The repository holds several drafts of the same   *)
(* serverless handler; each draft is one value of `handler`, and one       *)
(* behaviour of the model is one HTTP request served by one draft.         *)
(*                                                                         *)
(* A handler runs synchronously between two awaits, so one action is the   *)
(* code from one await to the next: Invoke (entry to the submit fetch),    *)
(* SubmitReply, SleepDone, PollReply and CancelReply.                      *)
(***************************************************************************)
EXTENDS Integers, Sequences, FiniteSets, TLC

\* ------------------------------------------------------------------ bounds
\* The local deadline, in units of one polling interval (the code's
\* deadlines are 10 to 45 s with 200 ms to 1 s between polls).
DeadlineTicks == 2
\* The longest a single network round trip or timer overshoot lasts, in ticks.
MaxLatency == 1

\* ------------------------------------------------------------- characters
Digits == {"0", "1", "2", "5", "7"}
Letters == {"A", "B", "O", "x"}
IdentChars == Digits \cup Letters \cup {"_"}
Quote == "'"

\* ------------------------------------------------------------- SQL text
\* Statement text is a sequence of pieces.  A piece is either template text
\* written in the handler (src = "tpl") or one character that came from the
\* request (src = "in").
Tpl(s) == << [src |-> "tpl", c |-> s] >>

In(s) == [i \in 1..Len(s) |-> [src |-> "in", c |-> s[i]]]

\* String.prototype.substring(0, n)
Substring0(s, n) == SubSeq(s, 1, IF Len(s) < n THEN Len(s) ELSE n)

\* val.replace(/[^a-zA-Z0-9_]/g, "")
sanitize(val) == SelectSeq(val, LAMBDA c : c \in IdentChars)

\* max_month.replace(/[^0-9]/g, "")
DigitsOnly(val) == SelectSeq(val, LAMBDA c : c \in Digits)

\* s.replace(/'/g, "")
StripQuotes(s) == SelectSeq(s, LAMBDA c : c # Quote)

\* s.replace(/'/g, "''")
RECURSIVE DoubleQuotes(_)
DoubleQuotes(s) ==
    IF s = << >> THEN << >>
    ELSE (IF Head(s) = Quote THEN << Quote, Quote >> ELSE << Head(s) >>)
         \o DoubleQuotes(Tail(s))

\* `'${v}'`
Quoted(v) == Tpl(Quote) \o In(v) \o Tpl(Quote)

\* list.map(f).join(",") over already rendered items
RECURSIVE JoinComma(_)
JoinComma(items) ==
    IF items = << >> THEN << >>
    ELSE IF Len(items) = 1 THEN Head(items)
    ELSE Head(items) \o Tpl(",") \o JoinComma(Tail(items))

\* conditions.join(" AND ")
RECURSIVE JoinAnd(_)
JoinAnd(items) ==
    IF items = << >> THEN << >>
    ELSE IF Len(items) = 1 THEN Head(items)
    ELSE Head(items) \o Tpl(" AND ") \o JoinAnd(Tail(items))

\* ------------------------------------------------------------ registries
KPI_MAP ==
    [ volume   |-> [table |-> "mbmc_actuals_volume",   col |-> "STRs",
                    hasChannel |-> TRUE,  geoColumn |-> "WSLR_NBR", agg |-> "SUM"],
      revenue  |-> [table |-> "mbmc_actuals_revenue",  col |-> "net_rev",
                    hasChannel |-> FALSE, geoColumn |-> "WSLR_NBR", agg |-> "SUM"],
      displays |-> [table |-> "mbmc_actuals_displays", col |-> "displays",
                    hasChannel |-> TRUE,  geoColumn |-> "WSLR_NBR", agg |-> "SUM"],
      share    |-> [table |-> "mbmc_actuals_bir",      col |-> "shr",
                    hasChannel |-> TRUE,  geoColumn |-> "WSLR_NBR", agg |-> "AVG"],
      adshare  |-> [table |-> "mbmc_actuals_ads",      col |-> "ad_share",
                    hasChannel |-> TRUE,  geoColumn |-> "KAM",      agg |-> "AVG"],
      pods     |-> [table |-> "mbmc_actuals_distro",   col |-> "pods",
                    hasChannel |-> TRUE,  geoColumn |-> "WSLR_NBR", agg |-> "SUM"],
      taps     |-> [table |-> "mbmc_actuals_distro",   col |-> "taps",
                    hasChannel |-> TRUE,  geoColumn |-> "WSLR_NBR", agg |-> "SUM"],
      avd      |-> [table |-> "mbmc_actuals_distro",   col |-> "avd",
                    hasChannel |-> TRUE,  geoColumn |-> "WSLR_NBR", agg |-> "AVG"] ]

\* The earlier multi-table draft: no agg field, the statement hard-codes SUM.
KPI_MAP_multi ==
    [ volume   |-> [table |-> "mbmc_actuals_volume",   col |-> "VAL",
                    hasChannel |-> TRUE,  geoColumn |-> "WSLR_NBR", agg |-> "SUM"],
      revenue  |-> [table |-> "mbmc_actuals_revenue",  col |-> "VAL",
                    hasChannel |-> FALSE, geoColumn |-> "WSLR_NBR", agg |-> "SUM"],
      share    |-> [table |-> "mbmc_actuals_bir",      col |-> "VAL",
                    hasChannel |-> TRUE,  geoColumn |-> "WSLR_NBR", agg |-> "SUM"],
      displays |-> [table |-> "mbmc_actuals_displays", col |-> "VAL",
                    hasChannel |-> TRUE,  geoColumn |-> "WSLR_NBR", agg |-> "SUM"],
      pods     |-> [table |-> "mbmc_actuals_distro",   col |-> "PODS",
                    hasChannel |-> TRUE,  geoColumn |-> "WSLR_NBR", agg |-> "SUM"],
      taps     |-> [table |-> "mbmc_actuals_distro",   col |-> "TAPS",
                    hasChannel |-> TRUE,  geoColumn |-> "WSLR_NBR", agg |-> "SUM"],
      avd      |-> [table |-> "mbmc_actuals_distro",   col |-> "AVD",
                    hasChannel |-> TRUE,  geoColumn |-> "WSLR_NBR", agg |-> "SUM"],
      adshare  |-> [table |-> "mbmc_actuals_ads",      col |-> "VAL",
                    hasChannel |-> TRUE,  geoColumn |-> "KAM_ID",   agg |-> "SUM"] ]

\* KPI_MAP is an object literal, so KPI_MAP[kpi] also finds the properties it
\* inherits from Object.prototype; those values are truthy and have none of
\* the configuration fields.
InheritedKeys == {"constructor", "toString"}

InheritedValue ==
    [table |-> "undefined", col |-> "undefined", hasChannel |-> FALSE,
     geoColumn |-> "undefined", agg |-> "undefined"]

NoConfig ==
    [table |-> "", col |-> "", hasChannel |-> FALSE, geoColumn |-> "", agg |-> ""]

\* const config = KPI_MAP[kpi]   (NoConfig stands for undefined)
LookupKpi(map, kpi) ==
    IF kpi \in DOMAIN map THEN map[kpi]
    ELSE IF kpi \in InheritedKeys THEN InheritedValue
    ELSE NoConfig

\* The listing path's allowlists.
ALLOWED_COLS_v3 == {"wslr_nbr", "mktng_st_cd", "sls_regn_cd", "channel", "megabrand"}
ALLOWED_COLS_v2 == {"wslr_nbr", "mktng_st_cd", "sls_regn_cd", "channel"}
ALLOWED_TABLES == {"mbmc_actuals_volume", "mbmc_actuals_revenue", "mbmc_actuals_distro"}

\* --------------------------------------------------------------- requests
Absent == [k |-> "absent", s |-> << >>]
Str(s) == [k |-> "str", s |-> s]

NoFilters ==
    [include_ao |-> FALSE, megabrand |-> << >>, region |-> << >>,
     state |-> << >>, wholesaler_id |-> << >>, channel |-> << >>]

\* An empty string stands for a field the body does not carry, where the
\* code treats the two alike (!kpi, a switch default, a defaulted scope).
BaseRequest ==
    [method |-> "POST", body |-> "object", ping |-> FALSE,
     contract_version |-> "", kpi |-> "", groupBy |-> "", max_month |-> Absent,
     scope |-> "", filters |-> NoFilters, dimension |-> "", table |-> "",
     envOk |-> TRUE]

\* ---------------------------------------------------------- the compiler
NoSql ==
    [kind |-> "none", select |-> "", agg |-> "", colCy |-> "", colLy |-> "",
     table |-> "", where |-> << >>, groupBy |-> "", orderBy |-> "", limit |-> 0]

\* The health-probe statement of the contract-routing drafts.
ProbeSql ==
    [NoSql EXCEPT !.kind = "probe", !.select = "max(cal_dt) as value",
                  !.table = "vip.bir.bir_weekly_ind"]

\* max_month = "202512" by destructuring default, only when the field is absent
MonthOrDefault(mm) == IF mm.k = "absent" THEN << "2", "0", "2", "5", "1", "2" >> ELSE mm.s

\* a time scope whose range starts at the bare year
ScopeConditionFromYear(scope, max_month) ==
    IF scope = "MTD"
    THEN Tpl("cal_yr_mo_nbr = ") \o In(max_month)
    ELSE Tpl("cal_yr_mo_nbr BETWEEN ") \o In(Substring0(max_month, 4))
         \o Tpl(" AND ") \o In(max_month)

\* --- 3. FILTER LOGIC (multi-table and aggregation drafts): the time scope
ScopeCondition(scope, max_month) ==
    IF scope = "MTD"
    THEN Tpl("cal_yr_mo_nbr = ") \o In(max_month)
    ELSE Tpl("cal_yr_mo_nbr BETWEEN ") \o In(Substring0(max_month, 4)) \o Tpl("01")
         \o Tpl(" AND ") \o In(max_month)

\* filters.megabrand.map((s) => `'${s.replace(/'/g, "''")}'`).join(",")
BrandList(values) ==
    JoinComma([i \in 1..Len(values) |-> Quoted(DoubleQuotes(values[i]))])

\* a predicate list that starts at the time scope
ConditionsUnseeded(scope, max_month, filters) ==
    << ScopeCondition(scope, max_month) >>
    \o (IF Len(filters.megabrand) > 0
        THEN << Tpl("megabrand IN (") \o BrandList(filters.megabrand) \o Tpl(")") >>
        ELSE << >>)

Conditions(scope, max_month, filters) ==
    << Tpl("1=1") >> \o << ScopeCondition(scope, max_month) >>
    \o (IF Len(filters.megabrand) > 0
        THEN << Tpl("megabrand IN (") \o BrandList(filters.megabrand) \o Tpl(")") >>
        ELSE << >>)

\* --- 4. DYNAMIC GROUPING: <<select expression, GROUP BY clause, ORDER BY clause>>
Grouping(groupBy, config, regionCol, stateCol) ==
    CASE groupBy = "megabrand" ->
            << "megabrand", "GROUP BY megabrand", "ORDER BY val_cy DESC" >>
      [] groupBy = "region" ->
            << regionCol, "GROUP BY " \o regionCol, "ORDER BY val_cy DESC" >>
      [] groupBy = "state" ->
            << stateCol, "GROUP BY " \o stateCol, "ORDER BY val_cy DESC" >>
      [] groupBy = "wholesaler" ->
            << config.geoColumn, "GROUP BY " \o config.geoColumn, "ORDER BY val_cy DESC" >>
      [] groupBy = "channel" ->
            IF ~config.hasChannel
            THEN << "'All Channels'", "", "ORDER BY val_cy DESC" >>
            ELSE << "channel", "GROUP BY channel", "ORDER BY val_cy DESC" >>
      [] OTHER ->
            << "cal_yr_mo_nbr", "GROUP BY cal_yr_mo_nbr", "ORDER BY cal_yr_mo_nbr ASC" >>

\* The aggregation draft (agg_logic_v4): AGG_FUNC = config.agg.
CompileAgg(r) ==
    LET config == LookupKpi(KPI_MAP, r.kpi)
        g == Grouping(IF r.groupBy = "" THEN "time" ELSE r.groupBy, config,
                      "sls_regn_cd", "mktng_st_cd")
    IN  [kind |-> "kpi", select |-> g[1], agg |-> config.agg,
         colCy |-> config.col \o "_CY", colLy |-> config.col \o "_LY",
         table |-> config.table,
         where |-> Conditions(IF r.scope = "" THEN "YTD" ELSE r.scope,
                              MonthOrDefault(r.max_month), r.filters),
         groupBy |-> g[2], orderBy |-> g[3], limit |-> 1000]

\* The multi-table draft (multi_table_v2): SUM is written into the statement.
CompileMulti(r) ==
    LET config == LookupKpi(KPI_MAP_multi, r.kpi)
        g == Grouping(IF r.groupBy = "" THEN "time" ELSE r.groupBy, config,
                      "sls_regn_nm", "state_cd")
    IN  [kind |-> "kpi", select |-> g[1], agg |-> "SUM",
         colCy |-> config.col \o "_CY", colLy |-> config.col \o "_LY",
         table |-> config.table,
         where |-> Conditions(IF r.scope = "" THEN "YTD" ELSE r.scope,
                              MonthOrDefault(r.max_month), r.filters),
         groupBy |-> g[2], orderBy |-> g[3], limit |-> 1000]

\* --- the query.ts draft under api/ (a fixed column layout, one table per KPI)
\* 1. TABLE RESOLUTION: the switch falls back to the volume table.
TableOf(kpi) ==
    CASE kpi = "volume"   -> "mbmc_actuals_volume"
      [] kpi = "revenue"  -> "mbmc_actuals_revenue"
      [] kpi = "share"    -> "mbmc_actuals_share"
      [] kpi = "adshare"  -> "mbmc_actuals_adshare"
      [] kpi = "pods"     -> "mbmc_actuals_pods"
      [] kpi = "taps"     -> "mbmc_actuals_taps"
      [] kpi = "displays" -> "mbmc_actuals_displays"
      [] kpi = "avd"      -> "mbmc_actuals_avd"
      [] OTHER            -> "mbmc_actuals_volume"

\* 2. DATE SCOPE LOGIC over safeMonth
DateCondition(scope, safeMonth) ==
    IF scope = "MTD"
    THEN Tpl("month = ") \o Quoted(safeMonth)
    ELSE IF Len(safeMonth) = 6
         THEN Tpl("month >= ") \o Tpl(Quote) \o In(Substring0(safeMonth, 4)) \o Tpl("01")
              \o Tpl(Quote) \o Tpl(" AND month <= ") \o Quoted(safeMonth)
         ELSE Tpl("month = ") \o Quoted(safeMonth)

\* one `col IN ('a','b')` predicate, f applied to every value
InList(col, values, f(_)) ==
    IF Len(values) > 0
    THEN << Tpl(col \o " IN (")
            \o JoinComma([i \in 1..Len(values) |-> Quoted(f(values[i]))])
            \o Tpl(")") >>
    ELSE << >>

\* 3. BUILD WHERE CLAUSE
WhereParts(scope, safeMonth, filters) ==
    << DateCondition(scope, safeMonth) >>
    \o (IF filters.include_ao # TRUE THEN << Tpl("megabrand != 'AO'") >> ELSE << >>)
    \o InList("megabrand", filters.megabrand, StripQuotes)
    \o InList("sls_regn_cd", filters.region, StripQuotes)
    \o InList("mktng_st_cd", filters.state, StripQuotes)
    \o InList("wslr_nbr", filters.wholesaler_id, StripQuotes)
    \o InList("channel", filters.channel, StripQuotes)

\* 4. CONSTRUCT SQL: <<group column, ORDER BY clause>>
GroupCol(groupBy) ==
    CASE groupBy = "region"     -> << "sls_regn_cd", "ORDER BY 2 DESC" >>
      [] groupBy = "state"      -> << "mktng_st_cd", "ORDER BY 2 DESC" >>
      [] groupBy = "wholesaler" -> << "wslr_nbr", "ORDER BY 2 DESC" >>
      [] groupBy = "channel"    -> << "channel", "ORDER BY 2 DESC" >>
      [] groupBy = "megabrand"  -> << "megabrand", "ORDER BY 2 DESC" >>
      [] groupBy = "total"      -> << "'Total'", "" >>
      [] OTHER                  -> << "month", "ORDER BY 1 ASC" >>

NON_ADDITIVE_KPIS == {"share", "adshare", "avd"}

CompileApiQuery(r) ==
    LET g == GroupCol(r.groupBy)
        aggFunc == IF r.kpi \in NON_ADDITIVE_KPIS THEN "AVG" ELSE "SUM"
    IN  [kind |-> "kpi", select |-> g[1], agg |-> aggFunc,
         colCy |-> "value_cy", colLy |-> "value_ly", table |-> TableOf(r.kpi),
         where |-> WhereParts(r.scope, DigitsOnly(r.max_month.s), r.filters),
         groupBy |-> "GROUP BY 1", orderBy |-> g[2], limit |-> 5000]

\* --- the first query draft: sanitize is declared and never applied
Raw(s) == s

LegacyDateCondition(scope, max_month) ==
    IF scope = "MTD"
    THEN Tpl("month = ") \o Quoted(max_month)
    ELSE Tpl("month >= ") \o Tpl(Quote) \o In(Substring0(max_month, 4)) \o Tpl("01")
         \o Tpl(Quote) \o Tpl(" AND month <= ") \o Quoted(max_month)

LegacyWhereParts(scope, max_month, filters) ==
    << LegacyDateCondition(scope, max_month),
       IF filters.include_ao = TRUE THEN Tpl("1=1") ELSE Tpl("brand_type = 'Core'") >>
    \o InList("megabrand", filters.megabrand, Raw)
    \o InList("sls_regn_cd", filters.region, Raw)
    \o InList("mktng_st_cd", filters.state, Raw)
    \o InList("wslr_nbr", filters.wholesaler_id, Raw)
    \o InList("channel", filters.channel, Raw)

LegacyTableOf(kpi) ==
    CASE kpi = "revenue" -> "mbmc_actuals_revenue"
      [] kpi = "share"   -> "mbmc_actuals_share"
      [] OTHER           -> "mbmc_actuals_volume"

LegacyGroupCol(groupBy) ==
    CASE groupBy = "region"     -> "sls_regn_cd"
      [] groupBy = "state"      -> "mktng_st_cd"
      [] groupBy = "wholesaler" -> "wslr_nbr"
      [] groupBy = "channel"    -> "channel"
      [] groupBy = "megabrand"  -> "megabrand"
      [] groupBy = "total"      -> "'Total'"
      [] OTHER                  -> "month"

CompileLegacy(r) ==
    [kind |-> "kpi", select |-> LegacyGroupCol(r.groupBy),
     agg |-> IF r.kpi \in NON_ADDITIVE_KPIS THEN "AVG" ELSE "SUM",
     colCy |-> "value_cy", colLy |-> "value_ly", table |-> LegacyTableOf(r.kpi),
     where |-> LegacyWhereParts(r.scope, r.max_month.s, r.filters),
     groupBy |-> "GROUP BY 1",
     orderBy |-> IF r.groupBy = "time" THEN "ORDER BY 1 ASC" ELSE "ORDER BY 2 DESC",
     limit |-> 5000]

\* --- the distinct-value listing statement; dimension and table are the
\* request's own strings, interpolated after the allowlist check
CompileListing(r, orderBy) ==
    [kind |-> "listing", select |-> r.dimension, agg |-> "", colCy |-> "", colLy |-> "",
     table |-> r.table,
     where |-> << << [src |-> "in", c |-> r.dimension] >> \o Tpl(" IS NOT NULL") >>,
     groupBy |-> "", orderBy |-> orderBy, limit |-> 2000]

\* ------------------------------------------------- replies and responses
\* A reply's result member: absent, an object without data_array, or rows.
NoResult == [kind |-> "absent", rows |-> << >>]
NoData == [kind |-> "nodata", rows |-> << >>]
Rows(rows) == [kind |-> "rows", rows |-> rows]

\* !result
Falsy(result) == result.kind = "absent"

\* last?.result?.data_array (an array, even an empty one, is truthy)
HasDataArray(result) == result.kind = "rows"

\* What the handler sent: status 0 stands for no response yet, json = FALSE
\* for res.status(..).end().  state, detail, result and options are the
\* members of the JSON body that carry what was observed.
Resp(status, ok, error) ==
    [status |-> status, json |-> TRUE, ok |-> ok, error |-> error, state |-> "",
     detail |-> "", result |-> NoResult, options |-> << >>, statement_id |-> ""]

NoResponse == [Resp(0, FALSE, "") EXCEPT !.json = FALSE]

End(status) == [Resp(status, FALSE, "") EXCEPT !.json = FALSE]

\* What one synchronous stretch of a handler ends with: a response, a fetch
\* that is awaited, or a timer that is awaited.
Respond(resp) == [pc |-> "done", response |-> resp, call |-> "none"]
Fetch(op) == [pc |-> "await_" \o op, response |-> NoResponse, call |-> op]
Sleep == [pc |-> "sleeping", response |-> NoResponse, call |-> "none"]

\* options listed from the last row to the first
OptionsReversed(rows) ==
    [i \in 1..Len(rows) |->
        [label |-> rows[Len(rows) + 1 - i][1], value |-> rows[Len(rows) + 1 - i][1]]]

\* result.data_array.map((row) => ({label: row[0], value: row[0]}))
Options(rows) == [i \in 1..Len(rows) |-> [label |-> rows[i][1], value |-> rows[i][1]]]

\* --------------------------------------------- entry: up to the submit fetch
KpiHandlers == {"agg_v4", "multi_v2", "api_query", "legacy_query"}
RouteHandlers == {"query_v4", "query_v3"}
ListingHandlers == {"filters_v3", "filters_v2"}
Handlers == KpiHandlers \cup RouteHandlers \cup ListingHandlers

\* a catch block that answers every exception with the refusal's error text
CaughtAsRefusal(h, msg) == Respond(Resp(500, FALSE, "Databricks Error"))

\* the catch block of each draft, for an exception whose message is msg
Caught(h, msg) ==
    CASE h \in {"agg_v4", "multi_v2"} ->
            Respond([Resp(500, FALSE, "Internal Server Error") EXCEPT !.detail = msg])
      [] h \in RouteHandlers ->
            Respond([Resp(500, FALSE, "Databricks query failed") EXCEPT !.detail = msg])
      [] OTHER -> Respond(Resp(500, FALSE, msg))

\* the aggregation and multi-table drafts
BeginKpiMap(h, r, map) ==
    IF r.method = "OPTIONS" THEN Respond(End(200))
    ELSE IF r.method = "GET" THEN Respond(Resp(200, TRUE, ""))
    ELSE IF r.method # "POST" THEN Respond(Resp(405, FALSE, "Method not allowed"))
    ELSE IF r.body = "malformed" THEN Caught(h, "Unexpected token")
    ELSE IF r.body = "object" /\ r.ping = TRUE THEN Respond(Resp(200, TRUE, ""))
    ELSE IF ~r.envOk
         THEN Respond(Resp(500, FALSE, "Server missing Databricks credentials"))
    ELSE IF r.body = "none" THEN Caught(h, "Cannot destructure")
    ELSE IF LookupKpi(map, r.kpi) = NoConfig
         THEN Respond(Resp(400, FALSE, "KPI is not configured in API map."))
    ELSE Fetch("submit")

\* the contract-routing drafts; envFirst: the credentials are checked before
\* the body is parsed and the ping is answered
BeginRoute(h, r, envFirst) ==
    IF r.method = "OPTIONS" THEN Respond(End(204))
    ELSE IF r.method = "GET" THEN Respond(Resp(200, TRUE, ""))
    ELSE IF r.method # "POST" THEN Respond(Resp(405, FALSE, "Method not allowed"))
    ELSE IF envFirst /\ ~r.envOk
         THEN Respond(Resp(500, FALSE, "Missing Databricks env vars"))
    ELSE IF r.body = "malformed" THEN Caught(h, "Unexpected token")
    ELSE IF r.body = "object" /\ r.ping = TRUE THEN Respond(Resp(200, TRUE, ""))
    ELSE IF ~r.envOk
         THEN Respond(Resp(500, FALSE, "Missing Databricks env vars"))
    ELSE IF r.body = "object" /\ r.contract_version = "kpi_request.v1" /\ r.kpi # "volume"
         THEN Respond(Resp(400, FALSE, "Unknown kpi"))
    ELSE Fetch("submit")

\* a listing entry that checks the column against its allowlist and lets any
\* table through
BeginListingAnyTable(h, r, cols) ==
    IF r.method = "OPTIONS" THEN Respond(End(200))
    ELSE IF r.method # "POST"
         THEN Respond(Resp(405, FALSE, "Method not allowed. Please use POST."))
    ELSE IF r.body = "malformed" THEN Caught(h, "Unexpected token")
    ELSE IF r.body = "none" \/ r.dimension = "" \/ r.table = ""
         THEN Respond(Resp(400, FALSE, "Missing required fields"))
    ELSE IF r.dimension \notin cols
         THEN Respond(Resp(400, FALSE, "Invalid dimension or table"))
    ELSE Fetch("submit")

\* the listing drafts
BeginListing(h, r, cols) ==
    IF r.method = "OPTIONS" THEN Respond(End(200))
    ELSE IF r.method # "POST"
         THEN Respond(Resp(405, FALSE, "Method not allowed. Please use POST."))
    ELSE IF r.body = "malformed" THEN Caught(h, "Unexpected token")
    ELSE IF r.body = "none" \/ r.dimension = "" \/ r.table = ""
         THEN Respond(Resp(400, FALSE, "Missing required fields"))
    ELSE IF r.dimension \notin cols \/ r.table \notin ALLOWED_TABLES
         THEN Respond(Resp(400, FALSE, "Invalid dimension or table"))
    ELSE Fetch("submit")

\* !kpi || !max_month
MissingParams(r) == r.kpi = "" \/ r.max_month.k = "absent" \/ r.max_month.s = << >>

\* the query.ts draft under api/
BeginApiQuery(h, r) ==
    IF r.method = "OPTIONS" THEN Respond(End(200))
    ELSE IF r.method # "POST"
         THEN Respond(Resp(405, FALSE, "Method not allowed. Use POST."))
    ELSE IF r.body = "malformed" THEN Caught(h, "Unexpected token")
    ELSE IF r.body = "none" \/ MissingParams(r)
         THEN Respond(Resp(400, FALSE, "Missing required parameters"))
    ELSE Fetch("submit")

\* the first query draft: no method guard beyond OPTIONS
BeginLegacy(h, r) ==
    IF r.method = "OPTIONS" THEN Respond(End(200))
    ELSE IF r.body = "malformed" THEN Caught(h, "Unexpected token")
    ELSE IF r.body = "none" THEN Caught(h, "Cannot destructure")
    ELSE IF MissingParams(r) THEN Respond(Resp(400, FALSE, "Missing required params"))
    ELSE Fetch("submit")

Begin(h, r) ==
    CASE h = "agg_v4"       -> BeginKpiMap(h, r, KPI_MAP)
      [] h = "multi_v2"     -> BeginKpiMap(h, r, KPI_MAP_multi)
      [] h = "query_v4"     -> BeginRoute(h, r, FALSE)
      [] h = "query_v3"     -> BeginRoute(h, r, TRUE)
      [] h = "filters_v3"   -> BeginListing(h, r, ALLOWED_COLS_v3)
      [] h = "filters_v2"   -> BeginListing(h, r, ALLOWED_COLS_v2)
      [] h = "api_query"    -> BeginApiQuery(h, r)
      [] h = "legacy_query" -> BeginLegacy(h, r)

\* the statement each draft hands to the submit fetch
Compile(h, r) ==
    CASE h = "agg_v4"       -> CompileAgg(r)
      [] h = "multi_v2"     -> CompileMulti(r)
      [] h \in RouteHandlers -> ProbeSql
      [] h = "filters_v3"   -> CompileListing(r, "ORDER BY label ASC")
      [] h = "filters_v2"   -> CompileListing(r, "ORDER BY " \o r.dimension \o " ASC")
      [] h = "api_query"    -> CompileApiQuery(r)
      [] h = "legacy_query" -> CompileLegacy(r)

\* ------------------------------------------------------ the remote service
NonTerminal == {"PENDING", "RUNNING"}
Terminal == {"SUCCEEDED", "FAILED", "CANCELED", "CLOSED"}
States == NonTerminal \cup Terminal

StatementIds == {"st-1", "st-2"}
Messages == {"syntax error", "out of memory"}
Payload == << << "East", "100", "90" >>, << "West", "80", "70" >> >>
Results == {NoResult, NoData, Rows(Payload)}

\* A reply as the handler reads it: fetch threw (kind = "throw"), or a JSON
\* body with res.ok, statement_id, status?.state ("" when the body has no
\* status), result and the remote message (status.error.message, or the
\* top-level message of an error body).
ReplyOf(httpStatus, id, state, result, message) ==
    [kind |-> "json", httpOk |-> httpStatus = 200, httpStatus |-> httpStatus, id |-> id,
     state |-> state, result |-> result, message |-> message]

Threw == [ReplyOf(0, "", "", NoResult, "") EXCEPT !.kind = "throw"]

NoReply == [ReplyOf(0, "", "", NoResult, "") EXCEPT !.kind = "none"]

\* the bodies the remote service sends for a statement in state s
StatusBodies(states) ==
    { ReplyOf(200, id, st, res, msg) :
        id \in StatementIds, st \in states, res \in Results, msg \in Messages \cup {""} }

WellFormed(rep) ==
    /\ (rep.result # NoResult => rep.state = "SUCCEEDED")
    /\ (rep.message # "" <=> rep.state \in {"FAILED", "CANCELED"})

SubmitReplies ==
    {Threw}
    \cup { ReplyOf(code, "", "", NoResult, "statement rejected") : code \in {400, 503} }
    \cup { ReplyOf(200, "", "", NoResult, "") }
    \cup { rep \in StatusBodies({"PENDING", "RUNNING", "SUCCEEDED", "FAILED"}) : WellFormed(rep) }

\* the remote state machine: a terminal state is never left
NextStates(s) ==
    CASE s \in Terminal -> {s}
      [] s = "RUNNING"  -> States \ {"PENDING"}
      [] OTHER          -> States

PollReplies(remoteState) ==
    {Threw}
    \cup { ReplyOf(500, "", "", NoResult, "") }
    \cup { rep \in StatusBodies(NextStates(remoteState)) : WellFormed(rep) }

CancelReplies == {Threw, ReplyOf(200, "", "", NoResult, ""), ReplyOf(500, "", "", NoResult, "")}

\* ------------------------------------------------ the execution client
\* The drafts whose poll loop is bounded by a deadline.
HasDeadline(h) == h \notin {"api_query", "legacy_query"}

\* the success response of the listing drafts; map throws without data_array
ListingAnswer(h, result) ==
    IF result.kind = "nodata" THEN Caught(h, "Cannot read properties of undefined")
    ELSE Respond([Resp(200, TRUE, "") EXCEPT !.options = Options(result.rows)])

\* the value of `result` (or last.result) once reply rep has been read
ResultAfter(h, op, rep, result) ==
    CASE h \in ListingHandlers ->
            IF op = "poll" /\ rep.state = "SUCCEEDED" THEN rep.result ELSE result
      [] h = "api_query" ->
            IF op = "submit" \/ rep.state = "SUCCEEDED" THEN rep.result ELSE result
      [] OTHER -> rep.result

\* while (Date.now() < deadlineMs) { ... break on SUCCEEDED, FAILED, CANCELED ... }
\* and the response after the loop (aggregation and multi-table drafts)
LoopAgg(h, last, t) ==
    IF t < DeadlineTicks /\ last.state \notin {"SUCCEEDED", "FAILED", "CANCELED"}
    THEN Sleep
    ELSE IF last.state # "SUCCEEDED"
         THEN Respond([Resp(502, FALSE, "Query timed out or failed")
                        EXCEPT !.state = last.state])
         ELSE Respond([Resp(200, TRUE, "") EXCEPT !.result = last.result])

\* the same loop in the contract-routing drafts: SUCCEEDED ends it only
\* with a data_array
LoopRoute(h, last, id, t) ==
    IF /\ t < DeadlineTicks
       /\ ~(last.state = "SUCCEEDED" /\ HasDataArray(last.result))
       /\ last.state \notin {"FAILED", "CANCELED"}
    THEN Sleep
    ELSE IF last.state # "SUCCEEDED" \/ ~HasDataArray(last.result)
         THEN Respond([Resp(502, FALSE, "Databricks statement did not return results")
                        EXCEPT !.state = last.state, !.statement_id = id])
         ELSE Respond([Resp(200, TRUE, "")
                        EXCEPT !.result = last.result, !.state = last.state,
                               !.statement_id = id])

\* filters v3: after the loop, if (!result) cancel and answer 504
AfterLoopV3(h, result) ==
    IF Falsy(result) THEN Fetch("cancel") ELSE ListingAnswer(h, result)

\* filters v3: the head of while (Date.now() < DEADLINE), which polls at once
LoopV3(h, result, t) ==
    IF t < DeadlineTicks THEN Fetch("poll") ELSE AfterLoopV3(h, result)

\* filters v2: while (state !== "SUCCEEDED" && state !== "FAILED" && elapsed < 10000)
LoopV2(h, state, result, t) ==
    IF state # "SUCCEEDED" /\ state # "FAILED" /\ t < DeadlineTicks
    THEN Sleep
    ELSE IF Falsy(result) THEN Caught(h, "Query timed out or failed")
         ELSE ListingAnswer(h, result)

\* api/query.ts after its single poll
FinalApiQuery(h, result, id) ==
    IF Falsy(result)
    THEN Respond([Resp(202, FALSE, "Query pending") EXCEPT !.statement_id = id])
    ELSE Respond([Resp(200, TRUE, "") EXCEPT !.result = result])

\* a draft that answers with whatever result it holds after its single poll
FinalLegacyUnchecked(h, result) == Respond([Resp(200, TRUE, "") EXCEPT !.result = result])

\* the first query draft after its single poll
FinalLegacy(h, result) ==
    IF Falsy(result) THEN Caught(h, "Query execution pending or failed")
    ELSE Respond([Resp(200, TRUE, "") EXCEPT !.result = result])

\* from the submit reply to the next await; result is `result` after the reply
AfterSubmit(h, rep, result) ==
    IF rep.kind = "throw" THEN Caught(h, "fetch failed")
    ELSE CASE h \in {"agg_v4", "multi_v2"} ->
                IF ~rep.httpOk
                THEN Respond([Resp(rep.httpStatus, FALSE, "Databricks submit failed")
                               EXCEPT !.detail = rep.message])
                ELSE IF rep.id = "" THEN Caught(h, "No statement_id returned")
                ELSE LoopAgg(h, rep, 0)
           [] h \in RouteHandlers ->
                IF ~rep.httpOk
                THEN Respond([Resp(rep.httpStatus, FALSE, "Databricks submit failed")
                               EXCEPT !.detail = rep.message])
                ELSE IF rep.id = ""
                     THEN Respond(Resp(502, FALSE, "Databricks did not return statement_id"))
                ELSE LoopRoute(h, rep, rep.id, 0)
           [] h = "filters_v3" ->
                IF rep.id = ""
                THEN Respond([Resp(500, FALSE, "Databricks Error") EXCEPT !.detail = rep.message])
                ELSE LoopV3(h, result, 0)
           [] h = "filters_v2" ->
                IF rep.id = ""
                THEN Respond([Resp(500, FALSE, "Databricks Error") EXCEPT !.detail = rep.message])
                ELSE LoopV2(h, "PENDING", result, 0)
           [] h = "api_query" ->
                IF Falsy(result) /\ rep.id # "" THEN Sleep
                ELSE FinalApiQuery(h, result, rep.id)
           [] h = "legacy_query" ->
                IF Falsy(result) /\ rep.id # "" THEN Sleep ELSE FinalLegacy(h, result)

\* a client that arms the timer again whenever it fires
AfterSleepRearm(h, result, t) == Sleep

\* a client that submits the statement again after each wait
AfterSleepResubmit(h, result, t) == Fetch("submit")

\* from the end of the timer to the next await
AfterSleep(h, result, t) ==
    IF h = "filters_v3" THEN LoopV3(h, result, t) ELSE Fetch("poll")

\* from a poll reply to the next await
AfterPoll(h, rep, result, id, t) ==
    IF rep.kind = "throw" THEN Caught(h, "fetch failed")
    ELSE CASE h \in {"agg_v4", "multi_v2"} -> LoopAgg(h, rep, t)
           [] h \in RouteHandlers -> LoopRoute(h, rep, id, t)
           [] h = "filters_v3" ->
                IF rep.state = "SUCCEEDED" THEN AfterLoopV3(h, result)
                ELSE IF rep.state \in {"FAILED", "CANCELED", "CLOSED"}
                     THEN Respond([Resp(500, FALSE, "Query failed with state")
                                    EXCEPT !.state = rep.state, !.detail = rep.message])
                ELSE Sleep
           [] h = "filters_v2" ->
                IF rep.state = "" THEN Caught(h, "Cannot read properties of undefined")
                ELSE LoopV2(h, rep.state, result, t)
           [] h = "api_query" ->
                IF rep.state = "FAILED"
                THEN Respond([Resp(500, FALSE, "Query failed during execution")
                               EXCEPT !.detail = rep.message])
                ELSE FinalApiQuery(h, result, id)
           [] h = "legacy_query" -> FinalLegacy(h, result)

\* from the cancel reply to the response (filters v3 only)
AfterCancel(h, rep) ==
    IF rep.kind = "throw" THEN Caught(h, "fetch failed")
    ELSE Respond(Resp(504, FALSE, "Query timed out"))

\* ------------------------------------------------------------ the inputs
M202507 == << "2", "0", "2", "5", "0", "7" >>
M202512 == << "2", "0", "2", "5", "1", "2" >>
MonthValues ==
    {Absent, Str(<< >>), Str(M202507), Str(M202512), Str(<< "2", "0", "2", "5" >>),
     Str(<< "7", "'", " ", "O" >>)}
KpiNames ==
    {"", "volume", "revenue", "share", "adshare", "avd", "bogus", "constructor", "Volume"}
GroupBys == {"", "time", "megabrand", "region", "state", "wholesaler", "channel", "total"}
Scopes == {"", "MTD", "YTD"}
ValueLists == { << << "A" >> >>, << << "A" >>, << "O", "'", "B" >> >> }
FilterSets ==
    {NoFilters, [NoFilters EXCEPT !.include_ao = TRUE]}
    \cup { [NoFilters EXCEPT !.megabrand = v] : v \in ValueLists }
    \cup { [NoFilters EXCEPT !.region = v] : v \in ValueLists }
    \cup { [NoFilters EXCEPT !.state = v] : v \in ValueLists }
    \cup { [NoFilters EXCEPT !.wholesaler_id = v] : v \in ValueLists }
    \cup { [NoFilters EXCEPT !.channel = v] : v \in ValueLists }
    \cup { [include_ao |-> FALSE, megabrand |-> v, region |-> v, state |-> v,
             wholesaler_id |-> v, channel |-> v] : v \in ValueLists }
Dimensions == {"", "wslr_nbr", "megabrand", "WSLR_NBR", "cal_dt"}
Tables == {"", "mbmc_actuals_volume", "mbmc_actuals_bir"}

KpiBase == [BaseRequest EXCEPT !.kpi = "volume", !.max_month = Str(M202507)]

\* requests every draft receives: other methods, bodies that do not parse or
\* are missing, a ping, an environment without credentials
CommonRequests(base) ==
    { [base EXCEPT !.method = m, !.body = "none"] : m \in {"OPTIONS", "GET", "PUT"} }
    \cup { [base EXCEPT !.body = b] : b \in {"none", "malformed"} }
    \cup { [base EXCEPT !.ping = p, !.envOk = e] : p, e \in BOOLEAN }
    \cup { [BaseRequest EXCEPT !.ping = TRUE, !.envOk = e] : e \in BOOLEAN }

KpiRequests ==
    CommonRequests(KpiBase)
    \cup { [KpiBase EXCEPT !.kpi = k, !.groupBy = g] : k \in KpiNames, g \in GroupBys }
    \cup { [KpiBase EXCEPT !.scope = sc, !.max_month = m] : sc \in Scopes, m \in MonthValues }
    \cup { [KpiBase EXCEPT !.filters = f] : f \in FilterSets }

RouteRequests ==
    CommonRequests(KpiBase)
    \cup { [BaseRequest EXCEPT !.contract_version = cv, !.kpi = k] :
             cv \in {"", "kpi_request.v1", "kpi_request.v2"},
             k \in {"", "volume", "bogus"} }

ListingRequests ==
    CommonRequests([BaseRequest EXCEPT !.dimension = "wslr_nbr",
                                       !.table = "mbmc_actuals_volume"])
    \cup { [BaseRequest EXCEPT !.dimension = d, !.table = t] :
             d \in Dimensions, t \in Tables }

Requests(h) ==
    CASE h \in KpiHandlers -> KpiRequests
      [] h \in RouteHandlers -> RouteRequests
      [] OTHER -> ListingRequests

\* --------------------------------------------------------------- the state
VARIABLES
    handler,      \* the draft that serves the request
    req,          \* the request
    pc,           \* idle, await_submit, sleeping, await_poll, await_cancel, done
    sql,          \* the compiled statement handed to submit
    statementId,  \* submitted.statement_id
    last,         \* the reply read last
    result,       \* the handler's `result` (last.result where it keeps `last`)
    now,          \* ticks since the deadline was armed
    calls,        \* the network calls issued, in order, each with what came back
    response,     \* the response sent
    registry,     \* the module-level KPI_MAP object of the aggregation draft
    frames,       \* concurrent invocations: the local variables of each
    heard         \* concurrent invocations: what each request was delivered

solo == << handler, req, pc, sql, statementId, last, result, now, calls, response >>
concurrent == << registry, frames, heard >>
vars == << solo, concurrent >>

Init ==
    /\ handler \in Handlers
    /\ req \in Requests(handler)
    /\ pc = "idle"
    /\ sql = NoSql
    /\ statementId = ""
    /\ last = NoReply
    /\ result = NoResult
    /\ now = 0
    /\ calls = << >>
    /\ response = NoResponse
    /\ registry = KPI_MAP
    /\ frames = << >>
    /\ heard = << >>

\* the remote state the service reported last in call log log ("" before
\* any report)
RemoteStateIn(log) ==
    LET seen == SelectSeq(log, LAMBDA c : c.got \in States)
    IN  IF seen = << >> THEN "" ELSE seen[Len(seen)].got

RemoteState == RemoteStateIn(calls)

\* the clock of draft h, at t0, after a wait of at least least ticks
LaterFrom(h, t0, least) ==
    IF ~HasDeadline(h) THEN {t0}
    ELSE { IF t > DeadlineTicks + MaxLatency THEN DeadlineTicks + MaxLatency ELSE t :
             t \in (t0 + least)..(t0 + least + MaxLatency) }

Later(least) == LaterFrom(handler, now, least)

\* every call addressed to one fixed statement
IssueFixedId(op, id, t) == [op |-> op, id |-> "st-1", at |-> t, got |-> "?"]

Issue(op, id, t) == [op |-> op, id |-> id, at |-> t, got |-> "?"]

\* call log log with the reply of the call in flight filled in
AnsweredIn(log, rep) ==
    [log EXCEPT ![Len(log)].got =
        IF rep.kind = "throw" THEN "throw"
        ELSE IF rep.state = "" THEN "none" ELSE rep.state]

Answered(rep) == AnsweredIn(calls, rep)

\* take the outcome of a synchronous stretch: respond, fetch or sleep
Take(out, log, id, t) ==
    /\ pc' = out.pc
    /\ response' = out.response
    /\ calls' = IF out.call = "none" THEN log ELSE Append(log, Issue(out.call, id, t))

\* the handler from its entry to its first await
Invoke ==
    /\ pc = "idle"
    /\ LET out == Begin(handler, req)
       IN  /\ Take(out, calls, "", now)
           /\ sql' = IF out.call = "submit" THEN Compile(handler, req) ELSE sql
    /\ UNCHANGED << handler, req, statementId, last, result, now >>
    /\ UNCHANGED concurrent

\* the submit fetch resolves; the deadline is armed here
SubmitReply ==
    /\ pc = "await_submit"
    /\ \E rep \in SubmitReplies :
          LET res == ResultAfter(handler, "submit", rep, result)
          IN  /\ Take(AfterSubmit(handler, rep, res), Answered(rep), rep.id, 0)
              /\ last' = rep
              /\ result' = res
              /\ statementId' = rep.id
    /\ now' = 0
    /\ UNCHANGED << handler, req, sql >>
    /\ UNCHANGED concurrent

\* the timer between polls fires
SleepDone ==
    /\ pc = "sleeping"
    /\ \E t \in Later(1) :
          /\ now' = t
          /\ Take(AfterSleep(handler, result, t), calls, statementId, t)
    /\ UNCHANGED << handler, req, sql, statementId, last, result >>
    /\ UNCHANGED concurrent

\* a poll fetch resolves; a status body is that of the statement polled
PollReply ==
    /\ pc = "await_poll"
    /\ \E rep \in PollReplies(RemoteState), t \in Later(0) :
          LET res == ResultAfter(handler, "poll", rep, result)
          IN  /\ rep.id \in {"", statementId}
              /\ now' = t
              /\ Take(AfterPoll(handler, rep, res, statementId, t), Answered(rep),
                      statementId, t)
              /\ last' = rep
              /\ result' = res
    /\ UNCHANGED << handler, req, sql, statementId >>
    /\ UNCHANGED concurrent

\* the cancel fetch resolves
CancelReply ==
    /\ pc = "await_cancel"
    /\ \E rep \in CancelReplies, t \in Later(0) :
          /\ now' = t
          /\ Take(AfterCancel(handler, rep), Answered(rep), statementId, t)
    /\ UNCHANGED << handler, req, sql, statementId, last, result >>
    /\ UNCHANGED concurrent

Next == Invoke \/ SubmitReply \/ SleepDone \/ PollReply \/ CancelReply

Spec == Init /\ [][Next]_vars

\* ------------------------------------------------- what the claims speak of
Done == pc = "done"

CallsOf(op) == SelectSeq(calls, LAMBDA c : c.op = op)

\* the statement was accepted: the submit reply carried a statementId
Accepted == statementId # ""

\* the states the remote service reported for the statement, in order
Reported == SelectSeq(calls, LAMBDA c : c.op \in {"submit", "poll"} /\ c.got # "?")

\* every report so far was a state (no transport error) and non-terminal
OnlyNonTerminal == \A i \in 1..Len(Reported) : Reported[i].got \in NonTerminal

\* a terminal state was reported by the reply to call i
TerminalAt(i) == calls[i].op \in {"submit", "poll"} /\ calls[i].got \in Terminal

DeadlineElapsed == HasDeadline(handler) /\ now >= DeadlineTicks

\* The outcome kinds of the specification's error taxonomy, read off the
\* response a draft sends.
TimeoutOutcome(r) == ~r.ok /\ r.error \in {"Query timed out", "Query timed out or failed"}

FailedOutcome(r) ==
    /\ ~r.ok
    /\ r.error \in {"Query failed with state", "Query failed during execution",
                    "Query timed out or failed"}

\* what tells one error answer from another: the status and the error text
ErrorKind(r) == << r.status, r.error >>

ClientError(r) == r.json /\ ~r.ok /\ r.status \in 400..499

\* the request reached the handler's POST path with a body that parsed
Posted == req.method = "POST" /\ req.body = "object"

\* the keys each KPI draft has a table for
RegisteredKpis(h) ==
    CASE h = "agg_v4" -> DOMAIN KPI_MAP
      [] h = "multi_v2" -> DOMAIN KPI_MAP_multi
      [] h \in RouteHandlers -> {"volume"}
      [] OTHER -> {"volume", "revenue", "share", "adshare", "pods", "taps", "displays", "avd"}

AllowedCols(h) == IF h = "filters_v3" THEN ALLOWED_COLS_v3 ELSE ALLOWED_COLS_v2

\* Statement text as the SQL lexer reads it: a quote opens or closes a string
\* literal, two quotes inside a literal are one escaped quote.  A piece of
\* request text is validated when it is an identifier character, an
\* allowlisted name, or lies inside a literal that template quotes delimit.
RECURSIVE Validated(_, _)
Validated(text, inLiteral) ==
    IF text = << >> THEN ~inLiteral
    ELSE LET p == Head(text)
         IN  IF p.c = Quote
             THEN IF inLiteral /\ p.src = "in" /\ Len(text) >= 2
                     /\ text[2].c = Quote /\ text[2].src = "in"
                  THEN Validated(Tail(Tail(text)), TRUE)
                  ELSE p.src = "tpl" /\ Validated(Tail(text), ~inLiteral)
             ELSE /\ (p.src = "in" /\ ~inLiteral
                        => p.c \in IdentChars \cup ALLOWED_COLS_v3 \cup ALLOWED_TABLES)
                  /\ Validated(Tail(text), inLiteral)

\* ---------------------------------------------------------------- claims

\* C1: a request whose statement was accepted and whose every report is
\* non-terminal until the deadline elapses ends with a Timeout outcome, and
\* exactly one cancel call for its statementId was issued.
C1_TimeoutCancelsOnce ==
    (Done /\ Accepted /\ OnlyNonTerminal /\ DeadlineElapsed)
        => /\ TimeoutOutcome(response)
           /\ Cardinality({ i \in 1..Len(calls) :
                              calls[i].op = "cancel" /\ calls[i].id = statementId }) = 1

\* C2: while the remote service reports only non-terminal states before the
\* deadline the client keeps polling (it does not answer), and once it reads
\* SUCCEEDED with a payload it answers ok with exactly that payload.
C2_PollsUntilSucceeded ==
    /\ (Done /\ Accepted /\ OnlyNonTerminal) => DeadlineElapsed
    /\ (Done /\ Accepted /\ last.kind = "json" /\ last.state = "SUCCEEDED"
          /\ last.result.kind = "rows")
        => /\ response.ok
           /\ \/ response.result = last.result
              \/ handler \in ListingHandlers
                   /\ response.options = Options(last.result.rows)

\* C3: a SUCCEEDED reply without a result payload ends the request with an
\* error that is neither ok:true, nor the Timeout, nor the
\* QueryExecutionFailed outcome.
C3_SucceededWithoutPayload ==
    (Done /\ Accepted /\ last.kind = "json" /\ last.state = "SUCCEEDED"
       /\ last.result = NoResult)
        => /\ ~response.ok
           /\ ~TimeoutOutcome(response)
           /\ ~FailedOutcome(response)

\* C4: once a reply reports FAILED or CANCELED no further submit or poll is
\* issued, and the request ends with QueryExecutionFailed carrying the
\* message the remote service reported.
C4_FailedSurfacesMessage ==
    /\ \A i, j \in 1..Len(calls) :
          (i < j /\ calls[i].got \in {"FAILED", "CANCELED"})
              => calls[j].op \notin {"submit", "poll"}
    /\ (Done /\ last.kind = "json" /\ last.state \in {"FAILED", "CANCELED"})
          => FailedOutcome(response) /\ response.detail = last.message

\* the error kinds a draft answers with when a poll reports FAILED or CANCELED
FailureKinds(h) ==
    { ErrorKind(AfterPoll(h, rep, NoResult, "st-1", t).response) :
        rep \in { x \in StatusBodies({"FAILED", "CANCELED"}) : WellFormed(x) },
        t \in 0..DeadlineTicks }

\* C5: the answer to a request that ended by deadline expiry never has the
\* error kind of an answer to a request that ended by a remote failure.
C5_TimeoutDistinctFromFailure ==
    (Done /\ Accepted /\ OnlyNonTerminal /\ DeadlineElapsed)
        => ErrorKind(response) \notin FailureKinds(handler)

\* C6: a request naming a KPI that is no key of the registry is answered
\* with a client error and issues no network call.
C6_UnknownKpiRejected ==
    (handler \in KpiHandlers \cup RouteHandlers /\ Posted /\ ~req.ping /\ req.envOk
       /\ req.kpi # "" /\ req.kpi \notin RegisteredKpis(handler))
        => /\ calls = << >>
           /\ (Done => ClientError(response))

\* C7: every submitted statement takes its table and its _CY/_LY columns
\* from the registry entry stored under exactly the requested KPI name.
C7_StatementFromRegistry ==
    (handler = "agg_v4" /\ sql # NoSql)
        => /\ req.kpi \in DOMAIN KPI_MAP
           /\ sql.table = KPI_MAP[req.kpi].table
           /\ sql.colCy = KPI_MAP[req.kpi].col \o "_CY"
           /\ sql.colLy = KPI_MAP[req.kpi].col \o "_LY"

\* C8: the submitted statement holds no request text that was not sanitized,
\* quoted with its quotes neutralised, or matched against an allowlist.
C8_NoUnvalidatedText ==
    sql # NoSql => \A i \in 1..Len(sql.where) : Validated(sql.where[i], FALSE)

\* C9: on the listing path a (dimension, table) pair outside the product of
\* the draft's column allowlist and the table allowlist is answered 400
\* before a statement is built, and no network call is issued.
C9_ListingPairRejected ==
    (handler \in ListingHandlers /\ req.method = "POST" /\ req.body # "malformed"
       /\ ~(req.body = "object" /\ req.dimension \in AllowedCols(handler)
              /\ req.table \in ALLOWED_TABLES))
        => /\ calls = << >>
           /\ sql = NoSql
           /\ (Done => ClientError(response) /\ response.status = 400)

\* C9 witness: a listing request with an allowed column and a table outside
\* the allowlist has been answered 400 with no call issued.
C9_Witness ==
    /\ Done /\ handler \in ListingHandlers
    /\ req.dimension = "wslr_nbr" /\ req.table = "mbmc_actuals_bir"
    /\ response.status = 400 /\ calls = << >>

\* C10: a ping (GET, or POST with ping = true and no KPI fields) is answered
\* ok with no statement built and no network call, whatever the environment.
C10_PingAnsweredOk ==
    (handler \in {"agg_v4", "multi_v2"} \cup RouteHandlers
       /\ (req.method = "GET" \/ (Posted /\ req.ping /\ req.kpi = "")))
        => /\ calls = << >>
           /\ sql = NoSql
           /\ (Done => response.ok /\ response.status = 200)

\* C11: for a registered KPI the function applied to the _CY and the _LY
\* column is the one the registry declares for that KPI name, whatever else
\* the request holds, and it is never SUM for share, adshare or avd.
C11_AggregationFixedPerKpi ==
    (handler \in KpiHandlers /\ sql # NoSql /\ req.kpi \in RegisteredKpis(handler))
        => /\ sql.agg = KPI_MAP[req.kpi].agg
           /\ (req.kpi \in {"share", "adshare", "avd"} => sql.agg # "SUM")

\* the statement text of a piece sequence, whatever its origin
Text(pieces) == [i \in 1..Len(pieces) |-> pieces[i].c]

\* the time predicate of the compiled statement: conditions[1] after the
\* tautology in the registry drafts, whereParts[0] in the others
TimePredicate ==
    IF handler \in {"agg_v4", "multi_v2"} THEN sql.where[2] ELSE sql.where[1]

\* a compiled KPI statement exists
Compiled == handler \in KpiHandlers /\ sql # NoSql

\* the texts that are one equality of the month column with value m
EqualityOn(m) ==
    { << "cal_yr_mo_nbr = " >> \o m,
      << "month = ", Quote >> \o m \o << Quote >> }

\* the texts that are one closed range of the month column from lo to hi
ClosedRange(lo, hi) ==
    { << "cal_yr_mo_nbr BETWEEN " >> \o lo \o << " AND " >> \o hi,
      << "month >= ", Quote >> \o lo \o << Quote, " AND month <= ", Quote >> \o hi
          \o << Quote >> }

SixDigits(m) == Len(m) = 6 /\ \A i \in 1..6 : m[i] \in Digits

\* C12: for a 6-digit maxMonth YYYYMM, scope MTD compiles to one equality on
\* YYYYMM, and scope YTD or an absent scope compiles to the closed range from
\* YYYY01 to YYYYMM.
C12_ScopeResolution ==
    (Compiled /\ req.max_month.k = "str" /\ SixDigits(req.max_month.s))
        => LET m == req.max_month.s
           IN  IF req.scope = "MTD"
               THEN Text(TimePredicate) \in EqualityOn(m)
               ELSE Text(TimePredicate) \in ClosedRange(SubSeq(m, 1, 4) \o << "01" >>, m)

\* C12 witness: the aggregation draft compiled a request for 202507 with no
\* scope to the range 202501 .. 202507.
C12_Witness ==
    /\ handler = "agg_v4" /\ sql # NoSql
    /\ req.scope = "" /\ req.max_month = Str(M202507)
    /\ Text(TimePredicate)
         = << "cal_yr_mo_nbr BETWEEN ", "2", "0", "2", "5", "01", " AND ",
              "2", "0", "2", "5", "0", "7" >>

\* C13: a maxMonth that is not 6 digits once sanitized compiles, for either
\* scope, to one equality on the sanitized value: never a range, never text
\* that is no predicate.
C13_MalformedMonthFallsBack ==
    (Compiled /\ req.max_month.k = "str"
       /\ ~SixDigits(DigitsOnly(req.max_month.s)) /\ ~SixDigits(sanitize(req.max_month.s)))
        => Text(TimePredicate) \in EqualityOn(DigitsOnly(req.max_month.s))
                                     \cup EqualityOn(sanitize(req.max_month.s))

\* the statement groups by the column named col (by name, or by position 1
\* when col is the first select expression)
GroupsBy(col) ==
    /\ sql.select = col
    /\ sql.groupBy \in {"GROUP BY " \o col, "GROUP BY 1"}

\* C14: grouped by channel, a KPI without a channel dimension compiles to the
\* constant 'All Channels' with no GROUP BY clause, and a KPI with one
\* compiles to a statement that selects and groups by the channel column.
C14_ChannelGrouping ==
    (Compiled /\ req.kpi \in DOMAIN KPI_MAP /\ req.groupBy = "channel")
        => IF KPI_MAP[req.kpi].hasChannel
           THEN GroupsBy("channel")
           ELSE sql.select = "'All Channels'" /\ sql.groupBy = ""

\* C15: grouped by time, or with no groupBy, the statement groups by the
\* year-month column and orders ascending by it; grouped by megabrand,
\* region, state, wholesaler or channel it orders descending by the
\* current-period value (val_cy, the second select expression).
C15_OrderingFollowsGrouping ==
    (Compiled /\ req.kpi \in RegisteredKpis(handler))
        => /\ req.groupBy \in {"", "time"}
                => \E col \in {"cal_yr_mo_nbr", "month"} :
                      /\ GroupsBy(col)
                      /\ sql.orderBy \in {"ORDER BY " \o col \o " ASC", "ORDER BY 1 ASC"}
           /\ req.groupBy \in {"megabrand", "region", "state", "wholesaler", "channel"}
                => sql.orderBy \in {"ORDER BY val_cy DESC", "ORDER BY 2 DESC"}

\* the names the drafts give the wholesaler-number column and the
\* key-account-manager column (SQL identifiers, so case does not matter)
WholesalerCols == {"WSLR_NBR", "wslr_nbr"}
KamCols == {"KAM", "KAM_ID"}

\* the registry a draft looks the KPI up in
RegistryOf(h) == IF h = "multi_v2" THEN KPI_MAP_multi ELSE KPI_MAP

\* C16: grouped by wholesaler, the statement selects and groups by the geo
\* column of the requested KPI: the key-account-manager column for adshare,
\* the wholesaler-number column for the other KPIs.
C16_WholesalerGeoColumn ==
    (Compiled /\ req.kpi \in DOMAIN KPI_MAP /\ req.groupBy = "wholesaler")
        => /\ \E col \in (IF req.kpi = "adshare" THEN KamCols ELSE WholesalerCols) :
                 GroupsBy(col)
           /\ handler \in {"agg_v4", "multi_v2"}
                 => GroupsBy(RegistryOf(handler)[req.kpi].geoColumn)

\* the five filter dimensions and the columns the drafts filter them on
FilterDimensions == {"megabrand", "region", "state", "wholesaler_id", "channel"}

FilterColumns ==
    [megabrand |-> {"megabrand"}, region |-> {"sls_regn_cd", "sls_regn_nm"},
     state |-> {"mktng_st_cd", "state_cd"},
     wholesaler_id |-> WholesalerCols \cup KamCols, channel |-> {"channel"}]

\* the WHERE clause holds a predicate `col IN (...)` for one of the columns
HasInPredicate(cols) ==
    \E i \in 1..Len(sql.where) :
        /\ sql.where[i] # << >>
        /\ sql.where[i][1].c \in { col \o " IN (" : col \in cols }

\* C17: for each of the five filter dimensions the WHERE clause holds an IN
\* predicate on it exactly when the request supplies at least one value for it.
C17_FilterPredicates ==
    (Compiled /\ req.kpi \in RegisteredKpis(handler))
        => \A d \in FilterDimensions :
              HasInPredicate(FilterColumns[d]) <=> Len(req.filters[d]) > 0

\* the tautological predicate
Tautology == << "1=1" >>

RequestStrings ==
    {req.max_month.s}
    \cup UNION { { req.filters[d][i] : i \in 1..Len(req.filters[d]) } : d \in FilterDimensions }

\* the IN predicates of the WHERE clause on one of the columns
InPredicates(cols) ==
    { sql.where[i] : i \in { j \in 1..Len(sql.where) :
                               /\ sql.where[j] # << >>
                               /\ sql.where[j][1].c \in { col \o " IN (" : col \in cols } } }

\* C19: the sanitizer's output has no character outside [A-Za-z0-9_] and
\* sanitizing twice equals sanitizing once (a safe string is returned as it
\* is); every filter value is written into the statement as a literal with
\* each embedded single quote doubled.
C19_SanitizerContract ==
    /\ \A v \in RequestStrings :
          /\ \A i \in 1..Len(sanitize(v)) : sanitize(v)[i] \in IdentChars
          /\ sanitize(sanitize(v)) = sanitize(v)
          /\ (\A i \in 1..Len(v) : v[i] \in IdentChars) => sanitize(v) = v
    /\ Compiled
          => \A d \in FilterDimensions : \A p \in InPredicates(FilterColumns[d]) :
                Text(p) = << p[1].c >> \o Text(BrandList(req.filters[d])) \o << ")" >>

\* the record sequence the specification's normalizer makes of remote rows;
\* kind "rows" is the remote result object with its data_array of arrays
NormalizedRecords(rows) ==
    [kind |-> "records",
     rows |-> [i \in 1..Len(rows) |->
                 [dimension |-> rows[i][1], currentValue |-> rows[i][2],
                  priorValue |-> rows[i][3]]]]

\* C20: on the KPI path a SUCCEEDED payload of rows [d, cy, ly] is answered as
\* the sequence of records {dimension, currentValue, priorValue}, one per
\* row, in the remote order and with the cells unchanged.
C20_RowsNormalized ==
    (Done /\ handler \in KpiHandlers /\ response.ok
       /\ last.kind = "json" /\ last.state = "SUCCEEDED" /\ last.result.kind = "rows")
        => /\ response.result.kind = "records"
           /\ response.result = NormalizedRecords(last.result.rows)

\* C21: on the listing path the answered options hold one entry per remote
\* row, in the remote row order, and the label and the value of each entry
\* are the first cell of its row.
C21_ListingOptions ==
    (Done /\ handler \in ListingHandlers /\ response.ok)
        => /\ last.kind = "json" /\ last.state = "SUCCEEDED" /\ last.result.kind = "rows"
           /\ Len(response.options) = Len(last.result.rows)
           /\ \A i \in 1..Len(response.options) :
                 /\ response.options[i].label = last.result.rows[i][1]
                 /\ response.options[i].value = last.result.rows[i][1]

\* C21 witness: a listing request was answered with the options East, West
\* for the remote rows East, West.
C21_Witness ==
    /\ Done /\ handler \in ListingHandlers /\ response.ok
    /\ last.result.rows = Payload
    /\ Len(response.options) = 2
    /\ response.options[1].label = "East" /\ response.options[2].value = "West"

\* the submit replies that refuse the statement: an error status, no id
RejectingReplies == { rep \in SubmitReplies : rep.kind = "json" /\ ~rep.httpOk /\ rep.id = "" }

\* the submit call is the only call and it was answered by a refusal
SubmitRejected == Len(calls) >= 1 /\ calls[1].got = "none" /\ last \in RejectingReplies

\* the submit call failed in transport
SubmitUnreachable == Len(calls) >= 1 /\ calls[1].got = "throw"

\* the error kinds a draft answers a refused submission with
RejectedKinds(h) == { ErrorKind(AfterSubmit(h, rep, NoResult).response) : rep \in RejectingReplies }

\* the error kind a draft answers an unreachable remote service with
UnavailableKinds(h) == { ErrorKind(AfterSubmit(h, Threw, NoResult).response) }

CancelReturned == CallsOf("cancel") # << >> /\ CallsOf("cancel")[1].got # "?"

\* C23: when the deadline elapsed over a statement that was only seen in
\* non-terminal states and the cancel call has come back, whether it was
\* answered or failed, the request ends with the timeout error.
C23_CancelFailureKeepsTimeout ==
    (CancelReturned /\ DeadlineElapsed /\ OnlyNonTerminal)
        => Done /\ TimeoutOutcome(response)

\* C24: the submit call is the first call and has come back with a statement
\* id before any poll or cancel is issued; a call is issued only when every
\* earlier call has come back; every poll and cancel carries the statement id
\* that the request's own submit returned, which does not change afterwards.
C24_CallOrder ==
    [][/\ (pc = "await_submit" => statementId' = last'.id)
       /\ (pc # "await_submit" => statementId' = statementId)
       /\ \A i \in 1..Len(calls') :
             /\ (i = 1 <=> calls'[i].op = "submit")
             /\ (i < Len(calls') => calls'[i].got # "?")
             /\ (i > 1 => /\ calls'[1].got \in States
                          /\ statementId' \in StatementIds
                          /\ calls'[i].id = statementId')]_vars

\* C24 witness: a request whose submit returned the second statement id has
\* polled it twice and cancelled it.
C24_Witness ==
    /\ Done /\ statementId = "st-2"
    /\ Len(CallsOf("poll")) >= 2 /\ Len(CallsOf("cancel")) = 1
    /\ \A i \in 2..Len(calls) : calls[i].id = "st-2"

\* ------------------------------------- concurrent invocations of one module
\* The platform may run several invocations of the exported handler in one
\* module instance; their awaits interleave.  Each invocation has its own
\* activation (req, res and the handler's const/let variables); the module
\* level holds KPI_MAP only.
Slots == {1, 2}

ConcurrentHandler == "agg_v4"

\* the local variables of an invocation that has not started
IdleFrame ==
    [req |-> BaseRequest, pc |-> "idle", sql |-> NoSql, statementId |-> "",
     last |-> NoReply, result |-> NoResult, now |-> 0, calls |-> << >>,
     response |-> NoResponse]

\* what an invocation is delivered: its request, a fetch reply, a timer
Event(kind, r, rep, t) == [kind |-> kind, req |-> r, rep |-> rep, t |-> t]

\* frame f after the outcome of a synchronous stretch
FrameTake(f, out, log, id, t) ==
    [f EXCEPT !.pc = out.pc, !.response = out.response,
              !.calls = IF out.call = "none" THEN log
                        ELSE Append(log, Issue(out.call, id, t))]

\* one stretch of handler h, from the delivery of ev to the next await, on
\* the local variables f and the module-level registry map
FrameStep(h, map, f, ev) ==
    CASE ev.kind = "request" ->
            LET out == BeginKpiMap(h, ev.req, map)
            IN  [FrameTake([f EXCEPT !.req = ev.req], out, f.calls, "", f.now)
                    EXCEPT !.sql = IF out.call = "submit" THEN Compile(h, ev.req) ELSE f.sql]
      [] ev.kind = "submit" ->
            LET res == ResultAfter(h, "submit", ev.rep, f.result)
            IN  [FrameTake(f, AfterSubmit(h, ev.rep, res), AnsweredIn(f.calls, ev.rep),
                           ev.rep.id, 0)
                    EXCEPT !.last = ev.rep, !.result = res, !.statementId = ev.rep.id,
                           !.now = 0]
      [] ev.kind = "timer" ->
            [FrameTake(f, AfterSleep(h, f.result, ev.t), f.calls, f.statementId, ev.t)
                EXCEPT !.now = ev.t]
      [] OTHER ->
            LET res == ResultAfter(h, "poll", ev.rep, f.result)
            IN  [FrameTake(f, AfterPoll(h, ev.rep, res, f.statementId, ev.t),
                           AnsweredIn(f.calls, ev.rep), f.statementId, ev.t)
                    EXCEPT !.last = ev.rep, !.result = res, !.now = ev.t]

\* a module whose handler keeps its variables at module level: one cell
ActivationShared(k) == 1

\* the activation that holds the variables of invocation k
Activation(k) == k

\* the requests and replies of the concurrent runs
ConcurrentRequests ==
    { [KpiBase EXCEPT !.kpi = k, !.groupBy = "region"] : k \in {"volume", "revenue", "bogus"} }

ConcurrentSubmitReplies ==
    { rep \in SubmitReplies :
        /\ rep.httpStatus # 503
        /\ rep.state \in {"", "PENDING", "SUCCEEDED"}
        /\ rep.result \in {NoResult, Rows(Payload)} }

ConcurrentPollReplies(remoteState) ==
    { rep \in PollReplies(remoteState) :
        /\ rep.message \in {"", "syntax error"}
        /\ rep.state \in {"", "RUNNING", "SUCCEEDED", "FAILED"}
        /\ rep.result \in {NoResult, Rows(Payload)}
        /\ rep.state = "SUCCEEDED" => rep.result # NoResult }

ConcurrentInit ==
    /\ handler = ConcurrentHandler
    /\ req = BaseRequest
    /\ pc = "idle"
    /\ sql = NoSql
    /\ statementId = ""
    /\ last = NoReply
    /\ result = NoResult
    /\ now = 0
    /\ calls = << >>
    /\ response = NoResponse
    /\ registry = KPI_MAP
    /\ frames = [k \in Slots |-> IdleFrame]
    /\ heard = [k \in Slots |-> << >>]

\* invocation k runs one stretch on the delivery of ev
Deliver(k, ev) ==
    /\ frames' = [frames EXCEPT ![Activation(k)] =
                      FrameStep(ConcurrentHandler, registry, @, ev)]
    /\ heard' = [heard EXCEPT ![k] = Append(@, ev)]
    /\ UNCHANGED << registry, solo >>

ConcurrentInvoke ==
    \E k \in Slots, r \in ConcurrentRequests :
        /\ heard[k] = << >>
        /\ Deliver(k, Event("request", r, NoReply, 0))

ConcurrentSubmitReply ==
    \E k \in Slots, rep \in ConcurrentSubmitReplies :
        /\ heard[k] # << >>
        /\ frames[Activation(k)].pc = "await_submit"
        /\ Deliver(k, Event("submit", BaseRequest, rep, 0))

ConcurrentSleepDone ==
    \E k \in Slots :
        /\ frames[Activation(k)].pc = "sleeping"
        /\ \E t \in LaterFrom(ConcurrentHandler, frames[Activation(k)].now, 1) :
              Deliver(k, Event("timer", BaseRequest, NoReply, t))

\* in the concurrent runs the clock advances at the timers only
ConcurrentPollReply ==
    \E k \in Slots :
        /\ frames[Activation(k)].pc = "await_poll"
        /\ \E rep \in ConcurrentPollReplies(RemoteStateIn(frames[Activation(k)].calls)) :
              /\ rep.id \in {"", frames[Activation(k)].statementId}
              /\ Deliver(k, Event("poll", BaseRequest, rep, frames[Activation(k)].now))

ConcurrentNext ==
    ConcurrentInvoke \/ ConcurrentSubmitReply \/ ConcurrentSleepDone \/ ConcurrentPollReply

ConcurrentSpec == ConcurrentInit /\ [][ConcurrentNext]_vars

\* the run of one request alone: the stretches of the handler applied to
\* what the request was delivered, in order
RECURSIVE Alone(_)
Alone(events) ==
    IF events = << >> THEN IdleFrame
    ELSE FrameStep(ConcurrentHandler, KPI_MAP,
                   Alone(SubSeq(events, 1, Len(events) - 1)), events[Len(events)])

C26_NoPollAfterTerminal ==
    \A i, j \in 1..Len(calls) :
        (i < j /\ TerminalAt(i)) => calls[j].op # "poll"

\* every call that came back reported a statement state
AllReported == \A i \in 1..Len(calls) : calls[i].got \in States \cup {"?"}

\* C27: a request whose statement was accepted, and whose calls all came back
\* with a state, is answered only once a terminal state was observed or the
\* deadline has elapsed.
C27_AnswerOnlyAfterTerminalOrDeadline ==
    (Done /\ Accepted /\ AllReported)
        => \/ \E i \in 1..Len(calls) : TerminalAt(i)
           \/ DeadlineElapsed

\* C28: a cancel call is issued only at or after the deadline and only when
\* the state reported last before it is PENDING or RUNNING.
C28_CancelOnlyOnTimeout ==
    \A j \in 1..Len(calls) :
        calls[j].op = "cancel"
            => /\ calls[j].at >= DeadlineTicks
               /\ RemoteStateIn(SubSeq(calls, 1, j - 1)) \in NonTerminal

\* C29: a request issues at most one submit call, whatever came back.
C29_AtMostOneSubmit == Len(CallsOf("submit")) <= 1

\* C29 witness: a request that timed out after its polls and its cancel has
\* submitted once.
C29_Witness ==
    /\ Done /\ response.status = 504
    /\ Len(CallsOf("submit")) = 1 /\ Len(CallsOf("poll")) >= 2 /\ Len(CallsOf("cancel")) = 1

\* the stretch that follows out once a timer of one tick has fired
Settled(h, out, res, t) ==
    IF out.pc = "sleeping"
    THEN AfterSleep(h, res, IF t < DeadlineTicks + MaxLatency THEN t + 1 ELSE t)
    ELSE out

\* how a draft goes on after an observation: the call it issues next, or
\* the answer it gives (success or error)
Move(out) ==
    IF out.pc = "done"
    THEN [call |-> "none", answer |-> IF out.response.ok THEN "ok" ELSE "error"]
    ELSE [call |-> out.call, answer |-> "none"]

\* the move of draft h on submit reply rep
MoveOnSubmit(h, rep) ==
    LET res == ResultAfter(h, "submit", rep, NoResult)
    IN  Move(Settled(h, AfterSubmit(h, rep, res), res, 0))

\* the move of draft h on poll reply rep read at t, `result` being held
MoveOnPoll(h, rep, held, t) ==
    LET res == ResultAfter(h, "poll", rep, held)
    IN  Move(Settled(h, AfterPoll(h, rep, res, statementId, t), res, t))

\* C30: wherever a listing draft waits for a reply, it goes on after every
\* possible reply as the aggregation draft does on the same reply at the
\* same time: the same next call, or an answer of the same kind.
C30_SameProtocol ==
    handler \in ListingHandlers
        => /\ pc = "await_submit"
                => \A rep \in SubmitReplies :
                      MoveOnSubmit(handler, rep) = MoveOnSubmit("agg_v4", rep)
           /\ pc = "await_poll"
                => \A rep \in PollReplies(RemoteState), t \in Later(0) :
                      rep.id \in {"", statementId}
                          => MoveOnPoll(handler, rep, result, t)
                                = MoveOnPoll("agg_v4", rep, last.result, t)

\* C31: in the drafts that poll under a deadline, every poll is issued at a
\* time strictly before the deadline.
C31_NoPollAfterDeadline ==
    HasDeadline(handler)
        => \A j \in 1..Len(calls) : calls[j].op = "poll" => calls[j].at < DeadlineTicks

\* ------------------------------------------------------------ termination
\* The platform runs the handler once it is invoked, every fetch settles
\* (it returns or it fails) and every timer fires.
Fairness ==
    /\ WF_vars(Invoke)
    /\ WF_vars(SubmitReply)
    /\ WF_vars(SleepDone)
    /\ WF_vars(PollReply)
    /\ WF_vars(CancelReply)

\* the requests of the termination runs: one query per draft next to the
\* requests every draft receives
LiveRequests(h) ==
    CASE h \in KpiHandlers -> CommonRequests(KpiBase) \cup {KpiBase}
      [] h \in RouteHandlers ->
            CommonRequests(KpiBase)
            \cup {[BaseRequest EXCEPT !.contract_version = "kpi_request.v1", !.kpi = "volume"]}
      [] OTHER ->
            CommonRequests([BaseRequest EXCEPT !.dimension = "wslr_nbr",
                                               !.table = "mbmc_actuals_volume"])

LiveInit == Init /\ req \in LiveRequests(handler)

LiveSpec == LiveInit /\ [][Next]_vars /\ Fairness

\* C32: every invocation ends; when it has ended exactly one response has
\* been sent, none is sent before, and a response once sent is never
\* replaced or followed by a further call.
C32_TerminatesWithOneResponse ==
    /\ <>Done
    /\ [](Done <=> response # NoResponse)
    /\ [][Done => (response' = response /\ calls' = calls /\ pc' = pc)]_vars

\* C32 witness: an invocation has ended after two polls.
C32_Witness ==
    /\ Done /\ response # NoResponse
    /\ Len(CallsOf("poll")) >= 2

SubmitWithoutId ==
    Len(calls) >= 1 /\ calls[1].got \notin {"?", "throw"} /\ statementId = ""

\* C34: when the submit reply carries no statement id the request has ended
\* with an error response and the submit is its only call; no poll and no
\* cancel is ever issued with an empty statement id.
C34_NoIdNoPoll ==
    /\ SubmitWithoutId
          => /\ Done /\ Len(calls) = 1
             /\ response.json /\ ~response.ok /\ response.status >= 400
    /\ \A j \in 1..Len(calls) : calls[j].op \in {"poll", "cancel"} => calls[j].id # ""

\* C35: when the submit reply reports a terminal state the request issues
\* no poll: it answers from that reply.
C35_TerminalSubmitNoPoll ==
    (Len(calls) >= 1 /\ TerminalAt(1))
        => Done /\ CallsOf("poll") = << >>

====
